---- MODULE Spec2Model ----
(***************************************************************************)
(* Model of meshcore-net-bridge: the RS232 framing codec and stream        *)
(* decoder (protocol.py), the serial transport with its reconnect backoff  *)
(* (serial_handler.py), the broker handler (mqtt_handler.py) and the       *)
(* driving loop (main.py).                                                 *)
(*                                                                         *)
(* Bytes are integers 0..255, byte strings are sequences of bytes.         *)
(***************************************************************************)
EXTENDS Integers, Sequences, FiniteSets, TLC

VARIABLES
    \* ---- decoder harness: one FrameDecoder fed a byte stream in chunks
    junk,       \* input: bytes put on the line before the first frame
    sent,       \* input: the payloads whose frames make up the stream
    hit,        \* input: index in the framed part of the one changed byte, 0 if none
    stream,     \* input: the bytes on the line
    pos,        \* number of bytes of stream already passed to feed
    nfeeds,     \* number of feed calls made so far
    emitted,    \* concatenation of the lists returned by the feed calls so far
    \* ---- FrameDecoder
    buffer,     \* FrameDecoder._buffer (SerialHandler._decoder._buffer)
    \* ---- SerialHandler
    port,             \* _port: "none" (None), "open", or "lost": a handle that is
                      \* still open although its device has gone
    reconnect_delay,  \* _reconnect_delay
    written,          \* the bytes written to the port since it last stood at a
                      \* frame boundary
    write_lock,       \* _write_lock: the caller holding it, 0 when free
    fails,            \* history: failed try_reconnect calls since the last successful open
    last_sleep,       \* history: <<fails, delay>> at the sleep of the latest try_reconnect
    rx,               \* history: the bytes the latest port.read returned
    buf_before,       \* history: the decoder buffer when that read was fed
    \* ---- MqttHandler
    mesh_id,          \* _mesh_id (configuration)
    root_topic,       \* _config.root_topic (configuration)
    mqtt_connected,   \* _connected
    subscribed,       \* the broker holds the subscription issued on this connection
    link,             \* the client's connection to the broker: "down" or "up"
    loop_running,     \* the client's network thread runs (loop_start .. loop_stop)
    published,        \* messages published for the payloads of the latest read
    last_msg,         \* history: topic and outcome of the latest _handle_message call
    cb_pc,            \* position of each caller of write_packet: "idle", "write"
                      \* (past the connectivity check), "writing", "failing" or
                      \* "raising" (inside port.write, holding the lock)
    cb_payload,       \* payload each caller is writing
    cb_raised,        \* an exception escaped write_packet into its caller
    \* ---- run (main.py)
    pc,                 \* position of the driving loop
    shutdown_requested,
    packets,            \* payloads of the latest read_packets not yet published
    decoded,            \* history: the list the latest read_packets returned
    handed,             \* history: payloads of that list handed to publish_packet
    tick,               \* history: parity of the number of loop iterations
    last,               \* history: what the latest step of the driving loop did
    exit_code

harnessVars == <<junk, sent, hit, stream, pos, nfeeds, emitted>>
serialVars == <<port, reconnect_delay, written, write_lock, fails, last_sleep, rx,
                buf_before>>
mqttVars == <<mesh_id, root_topic, mqtt_connected, subscribed, link, loop_running,
              published, last_msg, cb_pc, cb_payload, cb_raised>>
runVars == <<pc, shutdown_requested, packets, decoded, handed, tick, last, exit_code>>

vars == <<harnessVars, buffer, serialVars, mqttVars, runVars>>

(***************************************************************************)
(* Bounds of the model.                                                    *)
(***************************************************************************)
MaxLen == 5        \* longest arbitrary byte stream
MaxJunk == 2       \* longest junk prefix put before a valid frame
MaxFrames == 2     \* most frames concatenated in one stream
MaxChunk == 2      \* feed sizes tried: 1..MaxChunk bytes, or all that is left
LongLen == 256     \* a payload whose length needs the high length byte

\* Byte values the arbitrary streams and junk are built from: both magic
\* bytes, zero, and one more value.
Alphabet == {0, 1, 62, 192}

\* Values a changed byte may take; 0 and 255 are congruent modulo 255.
CorruptTo == {0, 1, 62, 192, 255}

\* Payloads framed in the structured streams: the empty payload, one zero
\* byte, and the two magic bytes as a payload.
Payloads == {<<>>, <<0>>, <<192, 62>>}

(***************************************************************************)
(* protocol.py                                                             *)
(***************************************************************************)
FRAME_MAGIC == <<192, 62>>
HEADER_SIZE == 4
CHECKSUM_SIZE == 2

\* One pass of the for loop of fletcher16: the sums <<sum1, sum2>> after byte b.
fletcher16_step(sums, b) ==
    <<(sums[1] + b) % 255, (sums[2] + ((sums[1] + b) % 255)) % 255>>

\* The for loop over data[lo..hi], started with the sums st.  The bytes are
\* taken in order, first to last; the range is split in two only to keep the
\* depth of evaluation logarithmic in the length of the data.
RECURSIVE fletcher16_loop(_, _, _, _)
fletcher16_loop(data, lo, hi, st) ==
    IF lo > hi THEN st
    ELSE IF lo = hi THEN fletcher16_step(st, data[lo])
    ELSE LET mid == (lo + hi) \div 2
             left == fletcher16_loop(data, lo, mid, st)
         IN  \* the test is always true: it has the sums of the first half
             \* computed before the second half is entered
             IF left[1] >= 0 THEN fletcher16_loop(data, mid + 1, hi, left) ELSE left

fletcher16(data) ==
    LET sums == fletcher16_loop(data, 1, Len(data), <<0, 0>>) IN
    sums[2] * 256 + sums[1]

\* int.to_bytes(2, "big"), defined for 0 <= n <= 65535
to_bytes2(n) == <<n \div 256, n % 256>>

\* mutant: the length written low byte first
encode_frame_little_endian(payload) ==
    FRAME_MAGIC \o <<Len(payload) % 256, Len(payload) \div 256>>
                \o payload \o to_bytes2(fletcher16(payload))

encode_frame(payload) ==
    FRAME_MAGIC \o to_bytes2(Len(payload)) \o payload
                \o to_bytes2(fletcher16(payload))

\* bytearray.index: the first position of byte b in buf, 0 if absent
IndexOf(buf, b) ==
    IF \E i \in 1..Len(buf) : buf[i] = b
    THEN CHOOSE i \in 1..Len(buf) :
             buf[i] = b /\ \A j \in 1..(i - 1) : buf[j] # b
    ELSE 0

\* del buf[:n]
DelFront(buf, n) == SubSeq(buf, n + 1, Len(buf))

\* mutant: a lone magic-start byte at the end of the buffer is thrown away
WaitForSecondMagic_clear(buf) == <<>>

\* line 62: fewer than 2 bytes buffered, keep them and stop
WaitForSecondMagic(buf) == buf

\* mutant: the false-positive start byte and the byte after it are dropped
SkipFalsePositive_two(buf) == DelFront(buf, 2)

\* line 66: drop the false-positive start byte
SkipFalsePositive(buf) == DelFront(buf, 1)

\* mutant: the checksum is not compared
ChecksumMatches_always(received_checksum, payload) == TRUE

\* lines 86-87
ChecksumMatches(received_checksum, payload) ==
    received_checksum = fletcher16(payload)

\* mutant: the checksum bytes are left in the buffer
FrameSize_no_checksum(length) == HEADER_SIZE + length

\* line 74
FrameSize(length) == HEADER_SIZE + length + CHECKSUM_SIZE

\* mutant: frames are collected newest first
CollectFrame_front(frames, payload) == <<payload>> \o frames

\* line 88
CollectFrame(frames, payload) == Append(frames, payload)

\* mutant: bytes that hold no magic start are kept
ClearBuffer_kept(buf) == buf

\* line 54: self._buffer.clear()
ClearBuffer(buf) == <<>>

\* One pass of the while loop of feed on the buffer buf with the list frames:
\* the buffer and the list after it, and whether the pass ends in a break.
feed_pass(buf, frames) ==
    LET start == IndexOf(buf, FRAME_MAGIC[1]) IN
    IF start = 0
    THEN [stop |-> TRUE, buffer |-> ClearBuffer(buf), frames |-> frames]
    ELSE
      LET b == DelFront(buf, start - 1) IN
      IF Len(b) < 2
      THEN [stop |-> TRUE, buffer |-> WaitForSecondMagic(b), frames |-> frames]
      ELSE IF b[2] # FRAME_MAGIC[2]
      THEN [stop |-> FALSE, buffer |-> SkipFalsePositive(b), frames |-> frames]
      ELSE IF Len(b) < HEADER_SIZE
      THEN [stop |-> TRUE, buffer |-> b, frames |-> frames]
      ELSE
        LET length == b[3] * 256 + b[4]
            frame_size == FrameSize(length)
        IN
        IF Len(b) < frame_size
        THEN [stop |-> TRUE, buffer |-> b, frames |-> frames]
        ELSE
          LET payload == SubSeq(b, HEADER_SIZE + 1, HEADER_SIZE + length)
              received_checksum ==
                  b[HEADER_SIZE + length + 1] * 256 + b[HEADER_SIZE + length + 2]
          IN
          [stop |-> FALSE,
           buffer |-> DelFront(b, frame_size),
           frames |-> IF ChecksumMatches(received_checksum, payload)
                      THEN CollectFrame(frames, payload)
                      ELSE frames]

\* The while loop of FrameDecoder.feed on the buffer buf with the payloads
\* frames already collected, passes until one ends in a break: the final
\* buffer and the payloads.
RECURSIVE feed_loop(_, _)
feed_loop(buf, frames) ==
    LET r == feed_pass(buf, frames) IN
    IF r.stop
    THEN [buffer |-> r.buffer, frames |-> r.frames]
    ELSE feed_loop(r.buffer, r.frames)

\* FrameDecoder.feed(data) on a decoder whose buffer is buf
feed(buf, data) == feed_loop(buf \o data, <<>>)

(***************************************************************************)
(* Constants and construction of the handlers (serial_handler.py,          *)
(* mqtt_handler.py, main.py).                                              *)
(***************************************************************************)
RECONNECT_DELAY_MIN == 1
RECONNECT_DELAY_MAX == 60
INITIAL_RETRY_DELAY == 5

\* Contexts that call write_packet: the broker client's network thread, which
\* runs the callbacks, and one more caller of the handler.
NetworkThread == 1
Callers == {1, 2}

\* Topics are strings, modelled as sequences of characters.
Slash == "/"
Plus == "+"

\* Configurations: identities with and without a separator in them, roots of
\* one and of two levels.
MeshIds == {<<"a">>, <<"a", "/", "b">>}
RootTopics == {<<"r">>, <<"r", "/", "s">>}

\* SerialHandler.__init__
SerialConstructed ==
    /\ port = "none"
    /\ buffer = <<>>
    /\ reconnect_delay = RECONNECT_DELAY_MIN
    /\ written = <<>>
    /\ write_lock = 0
    /\ fails = 0
    /\ last_sleep = <<0, 0>>
    /\ rx = <<>>
    /\ buf_before = <<>>

\* MqttHandler.__init__ for the configuration (id, root)
MqttConstructed(id, root) ==
    /\ mesh_id = id
    /\ root_topic = root
    /\ mqtt_connected = FALSE
    /\ subscribed = FALSE
    /\ link = "down"
    /\ loop_running = FALSE
    /\ published = <<>>
    /\ last_msg = [topic |-> <<>>, outcome |-> "none"]
    /\ cb_pc = [w \in Callers |-> "idle"]
    /\ cb_payload = [w \in Callers |-> <<>>]
    /\ cb_raised = FALSE

\* run, up to the try block
RunStarted ==
    /\ pc = "init_open"
    /\ shutdown_requested = FALSE
    /\ packets = <<>>
    /\ decoded = <<>>
    /\ handed = <<>>
    /\ tick = 0
    /\ last = "none"
    /\ exit_code = 0

HarnessUnused ==
    /\ junk = <<>>
    /\ sent = <<>>
    /\ hit = 0
    /\ stream = <<>>
    /\ pos = 0
    /\ nfeeds = 0
    /\ emitted = <<>>

(***************************************************************************)
(* Decoder harness: the inputs.                                            *)
(***************************************************************************)
RECURSIVE Concat(_)
Concat(ss) == IF ss = <<>> THEN <<>> ELSE Head(ss) \o Concat(Tail(ss))

\* the frames of the payloads ps, one after the other
Frames(ps) == Concat([i \in 1..Len(ps) |-> encode_frame(ps[i])])

ByteStrings(maxlen) == UNION {[1..n -> Alphabet] : n \in 0..maxlen}

PayloadSeqs == UNION {[1..n -> Payloads] : n \in 1..MaxFrames}

Zeros(n) == [i \in 1..n |-> 0]

\* byte string s with the byte at index k replaced by v
Alter(s, k, v) == [s EXCEPT ![k] = v]

\* index of the frame of Frames(ps) that holds byte k, and the offset of
\* byte k in that frame (1-based)
RECURSIVE FrameAt(_, _, _)
FrameAt(ps, k, n) ==
    IF k <= Len(encode_frame(Head(ps)))
    THEN [frame |-> n, offset |-> k]
    ELSE FrameAt(Tail(ps), k - Len(encode_frame(Head(ps))), n + 1)

HitFrame == FrameAt(sent, hit, 1).frame
HitOffset == FrameAt(sent, hit, 1).offset
HitInPayload ==
    /\ hit > 0
    /\ HitOffset > HEADER_SIZE
    /\ HitOffset <= HEADER_SIZE + Len(sent[HitFrame])
HitInChecksum ==
    /\ hit > 0
    /\ HitOffset > HEADER_SIZE + Len(sent[HitFrame])

\* seq without its k-th element
Without(seq, k) == SubSeq(seq, 1, k - 1) \o SubSeq(seq, k + 1, Len(seq))

RECURSIVE IsSubseq(_, _)
IsSubseq(a, b) ==
    IF a = <<>> THEN TRUE
    ELSE IF b = <<>> THEN FALSE
    ELSE IF Head(a) = Head(b) THEN IsSubseq(Tail(a), Tail(b))
    ELSE IsSubseq(a, Tail(b))

\* s occurs in t as a run of consecutive bytes
IsInfix(s, t) ==
    \E off \in 0..(Len(t) - Len(s)) : SubSeq(t, off + 1, off + Len(s)) = s

HasMagic(s) == IsInfix(FRAME_MAGIC, s)

DecInit ==
    /\ pos = 0
    /\ nfeeds = 0
    /\ emitted = <<>>
    /\ SerialConstructed
    /\ MqttConstructed(<<"a">>, <<"r">>)
    /\ RunStarted
    /\ \/ \* an arbitrary byte stream
          /\ junk \in ByteStrings(MaxLen)
          /\ sent = <<>>
          /\ hit = 0
          /\ stream = junk
       \/ \* junk, then one valid frame
          /\ junk \in ByteStrings(MaxJunk)
          /\ \E p \in Payloads : sent = <<p>>
          /\ hit = 0
          /\ stream = junk \o Frames(sent)
       \/ \* valid frames, one byte of them changed (or none)
          /\ junk = <<>>
          /\ sent \in PayloadSeqs
          /\ hit \in 0..Len(Frames(sent))
          /\ IF hit = 0
             THEN stream = Frames(sent)
             ELSE \E v \in CorruptTo \ {Frames(sent)[hit]} :
                      stream = Alter(Frames(sent), hit, v)
       \/ \* one frame with a long payload
          /\ junk = <<>>
          /\ sent = <<Zeros(LongLen)>>
          /\ hit = 0
          /\ stream = Frames(sent)

\* one call of FrameDecoder.feed with the next k bytes of the stream
FeedChunk(k) ==
    /\ pos + k <= Len(stream)
    /\ LET r == feed(buffer, SubSeq(stream, pos + 1, pos + k)) IN
        /\ buffer' = r.buffer
        /\ emitted' = emitted \o r.frames
    /\ pos' = pos + k
    /\ nfeeds' = nfeeds + 1
    /\ UNCHANGED <<junk, sent, hit, stream, serialVars, mqttVars, runVars>>

FeedSome == \E k \in 1..MaxChunk : FeedChunk(k)

FeedRest == pos < Len(stream) /\ FeedChunk(Len(stream) - pos)

DecNext == FeedSome \/ FeedRest

DecSpec == DecInit /\ [][DecNext]_vars

AllFed == pos = Len(stream)

\* the bytes passed to feed so far
Fed == SubSeq(stream, 1, pos)

(***************************************************************************)
(* serial_handler.py: the methods of SerialHandler.  Each is an action on  *)
(* the handler's state; what the device does (an open that succeeds or     *)
(* fails, the bytes a read returns) is a parameter.                         *)
(***************************************************************************)
Min(a, b) == IF a <= b THEN a ELSE b

\* SerialHandler.connected: _port is not None and _port.is_open.  The
\* handler never keeps a closed Serial object: close() sets _port to None.
connected == port # "none"

\* mutant: a successful open leaves the backoff where it was
DelayAfterOpen_kept == reconnect_delay

\* line 41
DelayAfterOpen == RECONNECT_DELAY_MIN

\* mutant: the doubling is not capped
NextDelay_uncapped(delay) == delay * 2

\* lines 77-80
NextDelay(delay) == Min(delay * 2, RECONNECT_DELAY_MAX)

\* SerialHandler.open: ok, or serial.Serial(...) raises SerialException and
\* nothing is assigned
open(ok) ==
    IF ok
    THEN /\ port' = "open"
         /\ reconnect_delay' = DelayAfterOpen
         /\ fails' = 0
    ELSE UNCHANGED <<port, reconnect_delay, fails>>

\* SerialHandler.close
close == port' = "none"

\* mutant: the decoder is kept across the reconnect
FreshDecoder_kept == buffer

\* line 64: self._decoder = FrameDecoder(), whose buffer is empty
FreshDecoder == <<>>

\* SerialHandler.try_reconnect: close, fresh decoder, sleep, open; the
\* result is ok
try_reconnect(ok) ==
    /\ buffer' = FreshDecoder
    /\ last_sleep' = <<fails, reconnect_delay>>
    /\ IF ok
       THEN /\ port' = "open"
            /\ reconnect_delay' = DelayAfterOpen
            /\ fails' = 0
       ELSE /\ port' = "none"
            /\ reconnect_delay' = NextDelay(reconnect_delay)
            /\ fails' = fails + 1

\* Chunks of bytes one port.read may return: whole frames, two frames at
\* once, the head and the tail of a frame, a stray byte.
ReadPayloads == {<<1>>, <<2>>}
ReadChunks ==
    {Frames(<<p>>) : p \in ReadPayloads}
    \cup {Frames(<<<<1>>, <<2>>>>)}
    \cup {SubSeq(encode_frame(<<1>>), 1, 3), SubSeq(encode_frame(<<1>>), 4, 7), <<0>>}

\* SerialHandler.read_packets with the port connected and the read returning
\* data (empty on a timeout): the list returned is packets'
read_packets_data(data) ==
    /\ rx' = data
    /\ buf_before' = buffer
    /\ IF data = <<>>
       THEN /\ packets' = <<>>
            /\ buffer' = buffer
       ELSE /\ packets' = feed(buffer, data).frames
            /\ buffer' = feed(buffer, data).buffer
    /\ decoded' = packets'

\* The part of a frame the port has taken when another thread can next run,
\* and the rest of it.
FirstPart(frame) == SubSeq(frame, 1, 3)
RestPart(frame) == SubSeq(frame, 4, Len(frame))

\* The bytes are nothing or exactly one frame.
AtFrameBoundary(bytes) ==
    \/ bytes = <<>>
    \/ /\ feed(<<>>, bytes).buffer = <<>>
       /\ Len(feed(<<>>, bytes).frames) = 1

\* mutant: the write does not wait for the lock
LockFree_ignored == TRUE

\* line 116: with self._write_lock blocks while another caller holds the lock
LockFree == write_lock = 0

\* SerialHandler.write_packet, lines 109-114, called by w: the connectivity
\* check and encode_frame
write_packet_check(w, payload) ==
    IF ~connected
    THEN UNCHANGED <<cb_pc, cb_payload>>
    ELSE /\ cb_pc' = [cb_pc EXCEPT ![w] = "write"]
         /\ cb_payload' = [cb_payload EXCEPT ![w] = payload]

\* lines 116-117: w takes the lock and calls write on what _port is now: an
\* open port takes the bytes, a port whose device has gone raises
\* SerialException, and None has no write (AttributeError).  The outcome of
\* the call is settled when it starts.
write_begin(w) ==
    /\ write_lock' = w
    /\ cb_pc' = [cb_pc EXCEPT ![w] =
                    IF port = "open" THEN "writing"
                    ELSE IF port = "lost" THEN "failing"
                    ELSE "raising"]
    /\ written' =
          IF port = "open"
          THEN (IF AtFrameBoundary(written) THEN <<>> ELSE written)
                   \o FirstPart(encode_frame(cb_payload[w]))
          ELSE written

\* mutant: an exception that write_packet does not catch is swallowed
Escapes_never(position) == FALSE

\* lines 118-120: only serial.SerialException is caught
Escapes(position) == position = "raising"

\* mutant: a failed write closes the port
PortAfterWrite_closed(w) == IF cb_pc[w] = "failing" THEN "none" ELSE port

\* lines 118-120: a failed write is logged; the handle is left as it is
PortAfterWrite(w) == port

\* lines 116-120: port.write returns or raises, the with statement releases
\* the lock, write_packet returns or lets the exception through
write_end(w) ==
    /\ write_lock' = 0
    /\ port' = PortAfterWrite(w)
    /\ written' =
          IF cb_pc[w] = "writing"
          THEN written \o RestPart(encode_frame(cb_payload[w]))
          ELSE written
    /\ cb_raised' = (cb_raised \/ Escapes(cb_pc[w]))
    /\ cb_pc' = [cb_pc EXCEPT ![w] = "idle"]
    /\ cb_payload' = [cb_payload EXCEPT ![w] = <<>>]

(***************************************************************************)
(* SerialHandler driven through its methods in any order.                  *)
(***************************************************************************)
MaxFails == 7      \* most failed try_reconnect calls in a row
MaxPending == 3    \* a read brings data only while so few bytes are buffered

SerialInit ==
    /\ HarnessUnused
    /\ SerialConstructed
    /\ MqttConstructed(<<"a">>, <<"r">>)
    /\ RunStarted

CallOpen ==
    /\ \E ok \in BOOLEAN :
          /\ open(ok)
          /\ last' = IF ok THEN "open_ok" ELSE "open_fail"
    /\ UNCHANGED <<harnessVars, buffer, written, write_lock, last_sleep, rx, buf_before,
                   mqttVars, pc, shutdown_requested, packets, decoded, handed,
                   tick, exit_code>>

CallClose ==
    /\ close
    /\ last' = "close"
    /\ UNCHANGED <<harnessVars, buffer, reconnect_delay, written, write_lock, fails,
                   last_sleep, rx, buf_before, mqttVars, pc, shutdown_requested,
                   packets, decoded, handed, tick, exit_code>>

CallTryReconnect ==
    /\ \E ok \in BOOLEAN :
          /\ ok \/ fails < MaxFails
          /\ try_reconnect(ok)
          /\ last' = IF ok THEN "reconnect_ok" ELSE "reconnect_fail"
    /\ UNCHANGED <<harnessVars, written, write_lock, rx, buf_before, mqttVars, pc,
                   shutdown_requested, packets, decoded, handed, tick, exit_code>>

CallReadPackets ==
    /\ IF ~connected
       THEN /\ packets' = <<>>
            /\ decoded' = <<>>
            /\ last' = "read_closed"
            /\ UNCHANGED <<buffer, rx, buf_before>>
       ELSE IF port = "lost"
       THEN \* SerialDisconnected from port.read, or OSError from
            \* port.in_waiting
            /\ last' \in {"read_lost", "read_error"}
            /\ UNCHANGED <<buffer, rx, buf_before, packets, decoded>>
       ELSE /\ \E data \in ReadChunks \cup {<<>>} :
                  /\ data = <<>> \/ Len(buffer) <= MaxPending
                  /\ read_packets_data(data)
            /\ last' = "read"
    /\ UNCHANGED <<harnessVars, port, reconnect_delay, written, write_lock, fails,
                   last_sleep, mqttVars, pc, shutdown_requested, handed, tick,
                   exit_code>>

\* each caller writes a payload of its own, so that the frames on the wire
\* tell the callers apart
CallWritePacket ==
    /\ \E w \in Callers :
          /\ cb_pc[w] = "idle"
          /\ write_packet_check(w, <<w>>)
    /\ UNCHANGED <<harnessVars, buffer, serialVars, mesh_id, root_topic,
                   mqtt_connected, subscribed, link, loop_running, published,
                   last_msg, cb_raised, runVars>>

\* a caller past the connectivity check gets the lock and starts the write
WriteBegin ==
    /\ \E w \in Callers :
          /\ cb_pc[w] = "write"
          /\ LockFree
          /\ write_begin(w)
    /\ UNCHANGED <<harnessVars, buffer, port, reconnect_delay, fails, last_sleep,
                   rx, buf_before, mesh_id, root_topic, mqtt_connected,
                   subscribed, link, loop_running, published, last_msg,
                   cb_payload, cb_raised, runVars>>

\* the write ends and the lock is released
WriteEnd ==
    /\ \E w \in Callers :
          /\ cb_pc[w] \in {"writing", "failing", "raising"}
          /\ write_end(w)
    /\ UNCHANGED <<harnessVars, buffer, reconnect_delay, fails, last_sleep,
                   rx, buf_before, mesh_id, root_topic, mqtt_connected,
                   subscribed, link, loop_running, published, last_msg, runVars>>

\* the device behind an open handle goes away
DeviceLost ==
    /\ port = "open"
    /\ port' = "lost"
    /\ UNCHANGED <<harnessVars, buffer, reconnect_delay, written, write_lock, fails,
                   last_sleep, rx, buf_before, mqttVars, runVars>>

SerialNext ==
    \/ CallOpen
    \/ CallClose
    \/ CallTryReconnect
    \/ CallReadPackets
    \/ CallWritePacket
    \/ WriteBegin
    \/ WriteEnd
    \/ DeviceLost

SerialSpec == SerialInit /\ [][SerialNext]_vars

(***************************************************************************)
(* mqtt_handler.py                                                         *)
(***************************************************************************)
\* str.split("/"): the segments of topic
RECURSIVE SplitFrom(_, _, _, _)
SplitFrom(topic, i, segment, parts) ==
    IF i > Len(topic) THEN Append(parts, segment)
    ELSE IF topic[i] = Slash
    THEN SplitFrom(topic, i + 1, <<>>, Append(parts, segment))
    ELSE SplitFrom(topic, i + 1, Append(segment, topic[i]), parts)

Split(topic) == SplitFrom(topic, 1, <<>>, <<>>)

\* MqttHandler._rx_topic
RxTopic == root_topic \o <<Slash>> \o mesh_id

\* MqttHandler._subscribe_pattern
SubscribePattern == root_topic \o <<Slash, Plus>>

\* The broker's side of the subscription: a topic matches a filter without
\* "#" when both have the same number of levels and each level of the
\* filter is "+" or equal to the topic's.
Matches(filter, topic) ==
    LET f == Split(filter)
        t == Split(topic)
    IN  /\ Len(f) = Len(t)
        /\ \A i \in 1..Len(f) : f[i] = <<Plus>> \/ f[i] = t[i]

\* Topics messages are published on: every root with every identity, with
\* another identity "b", with an empty identity; and a topic of one level.
Topics ==
    {root \o <<Slash>> \o id :
        root \in RootTopics, id \in MeshIds \cup {<<"b">>, <<>>}}
    \cup {<<"r">>}

\* base64 text is a sequence of symbols: 0..63 the alphabet, 64 the pad "=",
\* 65 a character outside the alphabet.
B64Pad == 64

\* base64.b64encode
RECURSIVE b64encode(_)
b64encode(data) ==
    IF data = <<>> THEN <<>>
    ELSE IF Len(data) = 1
    THEN <<data[1] \div 4, (data[1] % 4) * 16, B64Pad, B64Pad>>
    ELSE IF Len(data) = 2
    THEN <<data[1] \div 4, (data[1] % 4) * 16 + data[2] \div 16,
           (data[2] % 16) * 4, B64Pad>>
    ELSE <<data[1] \div 4, (data[1] % 4) * 16 + data[2] \div 16,
           (data[2] % 16) * 4 + data[3] \div 64, data[3] % 64>>
         \o b64encode(SubSeq(data, 4, Len(data)))

\* base64.b64decode without validation (binascii.a2b_base64): characters
\* outside the alphabet are skipped, decoding stops at the padding that
\* completes a quad, and data characters left in an open quad are an error.
RECURSIVE a2b_base64(_, _, _, _, _, _)
a2b_base64(text, i, quad_pos, leftchar, pads, out) ==
    IF i > Len(text) THEN [ok |-> quad_pos = 0, data |-> out]
    ELSE IF text[i] = B64Pad
    THEN IF quad_pos >= 2 /\ quad_pos + pads + 1 >= 4
         THEN [ok |-> TRUE, data |-> out]
         ELSE a2b_base64(text, i + 1, quad_pos, leftchar,
                         IF quad_pos >= 2 THEN pads + 1 ELSE pads, out)
    ELSE IF text[i] > B64Pad
    THEN a2b_base64(text, i + 1, quad_pos, leftchar, pads, out)
    ELSE IF quad_pos = 0
    THEN a2b_base64(text, i + 1, 1, text[i], 0, out)
    ELSE IF quad_pos = 1
    THEN a2b_base64(text, i + 1, 2, text[i] % 16, 0,
                    Append(out, leftchar * 4 + text[i] \div 16))
    ELSE IF quad_pos = 2
    THEN a2b_base64(text, i + 1, 3, text[i] % 4, 0,
                    Append(out, leftchar * 16 + text[i] \div 4))
    ELSE a2b_base64(text, i + 1, 0, 0, 0, Append(out, leftchar * 64 + text[i]))

b64decode(text) == a2b_base64(text, 1, 0, 0, 0, <<>>)

\* msg.payload of the messages on the broker: an encoded packet and a text of
\* one data character, which does not decode
MsgPayloads == {b64encode(<<2>>), <<5>>}

\* mutant: the identity is taken from the first segment of the topic
SourceMesh_first(parts) == parts[1]

\* line 131: parts[-1]
SourceMesh(parts) == parts[Len(parts)]

\* MqttHandler._handle_message up to the call of on_packet: what it does
\* with a message
HandleMessage(topic, text) ==
    LET parts == Split(topic) IN
    IF Len(parts) < 2 THEN "no_identity"
    ELSE IF SourceMesh(parts) = mesh_id THEN "own"
    ELSE IF ~b64decode(text).ok THEN "bad_payload"
    ELSE "on_packet"

\* mutant: the payload is published whatever the flag says
publish_packet_always(payload) ==
    published' = Append(published, [topic |-> RxTopic, payload |-> b64encode(payload)])

\* MqttHandler.publish_packet
publish_packet(payload) ==
    published' =
        IF mqtt_connected
        THEN Append(published, [topic |-> RxTopic, payload |-> b64encode(payload)])
        ELSE published

(***************************************************************************)
(* main.py: run.  The driving loop is the main thread; the broker client's *)
(* network thread runs the callbacks.                                      *)
(***************************************************************************)
Flip(t) == 1 - t

Init ==
    /\ HarnessUnused
    /\ SerialConstructed
    /\ \E id \in MeshIds, root \in RootTopics : MqttConstructed(id, root)
    /\ RunStarted

\* lines 82-92: one pass of the initial connection loop
InitOpen ==
    /\ pc = "init_open"
    /\ IF shutdown_requested
       THEN /\ pc' = "init_check"
            /\ UNCHANGED <<port, reconnect_delay, fails, tick, last>>
       ELSE \E ok \in BOOLEAN :
              /\ open(ok)
              /\ pc' = IF ok THEN "init_check" ELSE "init_open"
              /\ last' = IF ok THEN "open_ok" ELSE "open_fail"
              /\ tick' = Flip(tick)
    /\ UNCHANGED <<harnessVars, buffer, written, write_lock, last_sleep, rx, buf_before,
                   mqttVars, shutdown_requested, packets, decoded, handed,
                   exit_code>>

\* lines 94-95
InitCheck ==
    /\ pc = "init_check"
    /\ pc' = IF shutdown_requested THEN "teardown" ELSE "connect"
    /\ UNCHANGED <<harnessVars, buffer, serialVars, mqttVars, shutdown_requested,
                   packets, decoded, handed, tick, last, exit_code>>

\* line 97: mqtt_handler.connect(); client.connect raises when the broker
\* cannot be reached, which run catches as an unexpected error (lines 122-124)
Connect ==
    /\ pc = "connect"
    /\ \E ok \in BOOLEAN :
          /\ loop_running' = ok
          /\ pc' = IF ok THEN "loop" ELSE "teardown"
          /\ exit_code' = IF ok THEN exit_code ELSE 1
    /\ UNCHANGED <<harnessVars, buffer, serialVars, mesh_id, root_topic,
                   mqtt_connected, subscribed, link, published, last_msg, cb_pc,
                   cb_payload, cb_raised, shutdown_requested, packets, decoded,
                   handed, tick, last>>

\* lines 107-120: one pass of the main loop, up to the for loop
LoopStep ==
    /\ pc = "loop"
    /\ IF shutdown_requested
       THEN /\ pc' = "teardown"
            /\ UNCHANGED <<buffer, port, reconnect_delay, fails, last_sleep, rx,
                           buf_before, published, packets, decoded, handed,
                           tick, last, exit_code>>
       ELSE IF ~connected
       THEN /\ \E ok \in BOOLEAN :
                  /\ ok \/ fails < MaxFails
                  /\ try_reconnect(ok)
                  /\ last' = IF ok THEN "reconnect_ok" ELSE "reconnect_fail"
            /\ pc' = "loop"
            /\ tick' = Flip(tick)
            /\ UNCHANGED <<rx, buf_before, published, packets, decoded, handed,
                           exit_code>>
       ELSE IF port = "lost"
       THEN \* port.read raises SerialException, read_packets raises
            \* SerialDisconnected and run logs it (lines 118-120); or
            \* port.in_waiting raises OSError, which run catches as an
            \* unexpected error (lines 122-124)
            /\ \E serial_exception \in BOOLEAN :
                  /\ last' = IF serial_exception THEN "read_lost" ELSE "read_error"
                  /\ pc' = IF serial_exception THEN "loop" ELSE "teardown"
                  /\ exit_code' = IF serial_exception THEN exit_code ELSE 1
            /\ tick' = Flip(tick)
            /\ UNCHANGED <<buffer, port, reconnect_delay, fails, last_sleep, rx,
                           buf_before, published, packets, decoded, handed>>
       ELSE /\ \E data \in ReadChunks \cup {<<>>} :
                  /\ data = <<>> \/ Len(buffer) <= MaxPending
                  /\ read_packets_data(data)
            /\ handed' = <<>>
            /\ published' = <<>>
            /\ last' = "read"
            /\ pc' = IF packets' = <<>> THEN "loop" ELSE "publish"
            /\ tick' = Flip(tick)
            /\ UNCHANGED <<port, reconnect_delay, fails, last_sleep, exit_code>>
    /\ UNCHANGED <<harnessVars, written, write_lock, mesh_id, root_topic, mqtt_connected,
                   subscribed, link, loop_running, last_msg, cb_pc, cb_payload,
                   cb_raised, shutdown_requested>>

\* lines 116-117: one pass of the for loop
Publish ==
    /\ pc = "publish"
    /\ publish_packet(Head(packets))
    /\ handed' = Append(handed, Head(packets))
    /\ packets' = Tail(packets)
    /\ pc' = IF Tail(packets) = <<>> THEN "loop" ELSE "publish"
    /\ UNCHANGED <<harnessVars, buffer, serialVars, mesh_id, root_topic,
                   mqtt_connected, subscribed, link, loop_running, last_msg, cb_pc,
                   cb_payload, cb_raised, shutdown_requested, decoded, tick,
                   last, exit_code>>

\* line 125 and mqtt_handler.py line 71: loop_stop() tells the network
\* thread to end; it starts no further callback
Teardown ==
    /\ pc = "teardown"
    /\ loop_running' = FALSE
    /\ pc' = "join"
    /\ UNCHANGED <<harnessVars, buffer, serialVars, mesh_id, root_topic,
                   mqtt_connected, subscribed, link, published, last_msg, cb_pc,
                   cb_payload, cb_raised, shutdown_requested, packets, decoded,
                   handed, tick, last, exit_code>>

\* mutant: the port is closed without waiting for the callback in progress
CallbacksStopped_unchecked == TRUE

\* mqtt_handler.py line 71: loop_stop() returns when the network thread has
\* ended, which it does when the callback in progress has returned
CallbacksStopped == cb_pc[NetworkThread] = "idle"

\* mqtt_handler.py lines 71-73: loop_stop() returns, the client disconnects
JoinCallbacks ==
    /\ pc = "join"
    /\ CallbacksStopped
    /\ link' = "down"
    /\ pc' = "close"
    /\ UNCHANGED <<harnessVars, buffer, serialVars, mesh_id, root_topic,
                   mqtt_connected, subscribed, loop_running, published,
                   last_msg, cb_pc, cb_payload, cb_raised, shutdown_requested,
                   packets, decoded, handed, tick, last, exit_code>>

\* lines 127-128: serial_handler.close(), and run ends
CloseSerial ==
    /\ pc = "close"
    /\ close
    /\ pc' = "done"
    /\ UNCHANGED <<harnessVars, buffer, reconnect_delay, written, write_lock,
                   fails, last_sleep, rx, buf_before, mqttVars,
                   shutdown_requested, packets, decoded, handed, tick, last,
                   exit_code>>

\* lines 72-78: SIGINT or SIGTERM
Signal ==
    /\ pc # "done"
    /\ ~shutdown_requested
    /\ shutdown_requested' = TRUE
    /\ UNCHANGED <<harnessVars, buffer, serialVars, mqttVars, pc, packets,
                   decoded, handed, tick, last, exit_code>>

\* mutant: the flag is set whatever the reason code
ConnectedAfterConnect_always(rc) == TRUE

\* mqtt_handler.py lines 93-100
ConnectedAfterConnect(rc) == rc = 0

\* mqtt_handler.py lines 85-101: _handle_connect with reason code rc, the
\* answer of the broker to a client that has no connection; 0 is success
OnConnect ==
    /\ loop_running
    /\ link = "down"
    /\ \E rc \in {0, 5} :
          /\ link' = IF rc = 0 THEN "up" ELSE "down"
          /\ mqtt_connected' = ConnectedAfterConnect(rc)
          /\ subscribed' = IF rc = 0 THEN TRUE ELSE subscribed
    /\ UNCHANGED <<harnessVars, buffer, serialVars, mesh_id, root_topic,
                   loop_running, published, last_msg, cb_pc, cb_payload,
                   cb_raised, runVars>>

\* mqtt_handler.py lines 103-118: _handle_disconnect; the connection is gone
\* and the broker's session with its subscription
OnDisconnect ==
    /\ loop_running
    /\ link = "up"
    /\ link' = "down"
    /\ mqtt_connected' = FALSE
    /\ subscribed' = FALSE
    /\ UNCHANGED <<harnessVars, buffer, serialVars, mesh_id, root_topic,
                   loop_running, published, last_msg, cb_pc, cb_payload,
                   cb_raised, runVars>>

\* mqtt_handler.py lines 120-148 and serial_handler.py lines 107-114: the
\* broker delivers a message matching the subscription; _handle_message, and
\* write_packet up to its write
OnMessage ==
    /\ loop_running
    /\ link = "up"
    /\ subscribed
    /\ cb_pc[NetworkThread] = "idle"
    /\ \E topic \in Topics, text \in MsgPayloads :
          /\ Matches(SubscribePattern, topic)
          /\ LET outcome == HandleMessage(topic, text) IN
             IF outcome = "on_packet"
             THEN /\ write_packet_check(NetworkThread, b64decode(text).data)
                  /\ last_msg' = [topic |-> topic,
                                  outcome |-> IF connected THEN "forwarded"
                                              ELSE "not_open"]
             ELSE /\ last_msg' = [topic |-> topic, outcome |-> outcome]
                  /\ UNCHANGED <<cb_pc, cb_payload>>
    /\ UNCHANGED <<harnessVars, buffer, serialVars, mesh_id, root_topic,
                   mqtt_connected, subscribed, link, loop_running, published,
                   cb_raised, runVars>>

Driving ==
    \/ InitOpen \/ InitCheck \/ Connect \/ LoopStep \/ Publish
    \/ Teardown \/ JoinCallbacks \/ CloseSerial

Next ==
    \/ InitOpen
    \/ InitCheck
    \/ Connect
    \/ LoopStep
    \/ Publish
    \/ Teardown
    \/ JoinCallbacks
    \/ CloseSerial
    \/ Signal
    \/ DeviceLost
    \/ OnConnect
    \/ OnDisconnect
    \/ OnMessage
    \/ WriteBegin
    \/ WriteEnd

Spec == Init /\ [][Next]_vars

\* The main thread and the callback thread keep running.
FairSpec == Spec /\ WF_vars(Driving) /\ WF_vars(WriteBegin) /\ WF_vars(WriteEnd)

(***************************************************************************)
(* C1: a decoder with an empty buffer fed encode_frame(p) in one feed call *)
(* returns exactly [p] and is left with an empty buffer.                   *)
(***************************************************************************)
C1_RoundTrip ==
    (/\ nfeeds = 1
     /\ AllFed
     /\ Len(sent) = 1
     /\ stream = encode_frame(sent[1]))
    => (emitted = sent /\ buffer = <<>>)

\* the frame of a payload longer than 255 bytes, fed whole, has come back
C1_Witness ==
    /\ nfeeds = 1
    /\ AllFed
    /\ Len(sent) = 1
    /\ stream = encode_frame(sent[1])
    /\ Len(sent[1]) > 255
    /\ emitted = sent

(***************************************************************************)
(* C2: however the stream is cut into feed calls, the payloads returned so *)
(* far and the bytes left in the buffer are those of one feed call with    *)
(* all the bytes passed so far.                                            *)
(***************************************************************************)
C2_ChunkingIndependent ==
    /\ emitted = feed(<<>>, Fed).frames
    /\ buffer = feed(<<>>, Fed).buffer

\* two frames fed one byte per call, both payloads out
C2_Witness ==
    /\ AllFed
    /\ nfeeds = Len(stream)
    /\ Len(sent) = 2
    /\ hit = 0
    /\ emitted = sent

(***************************************************************************)
(* C3 as stated: one payload byte of a valid frame replaced by any other   *)
(* value: the frame is dropped and the valid frames around it are emitted. *)
(***************************************************************************)
C3_AnyChangeDropped ==
    (AllFed /\ HitInPayload) => emitted = Without(sent, HitFrame)

(***************************************************************************)
(* C3 amended: one payload byte of a valid frame replaced by a value not   *)
(* congruent to it modulo 255 (any change but 0x00 <-> 0xFF): the frame is *)
(* dropped and the valid frames around it are emitted.                     *)
(***************************************************************************)
C3_IncongruentChangeDropped ==
    (/\ AllFed
     /\ HitInPayload
     /\ stream[hit] % 255 # Frames(sent)[hit] % 255)
    => emitted = Without(sent, HitFrame)

\* the first of two frames had a payload byte changed; only the second came out
C3_Witness ==
    /\ AllFed
    /\ Len(sent) = 2
    /\ HitInPayload
    /\ HitFrame = 1
    /\ stream[hit] % 255 # Frames(sent)[hit] % 255
    /\ emitted = <<sent[2]>>

(***************************************************************************)
(* C4: every payload emitted stood in the bytes fed as a whole frame       *)
(* 0xC0 0x3E | length | payload | fletcher16(payload); a frame whose       *)
(* checksum bytes do not match is taken out of the buffer and not emitted. *)
(***************************************************************************)
C4_OnlyChecksummedFrames ==
    /\ \A i \in 1..Len(emitted) : IsInfix(encode_frame(emitted[i]), Fed)
    /\ (AllFed /\ HitInChecksum) =>
           (emitted = Without(sent, HitFrame) /\ buffer = <<>>)

\* a frame with a changed checksum byte was consumed, the frame after it emitted
C4_Witness ==
    /\ AllFed
    /\ Len(sent) = 2
    /\ HitInChecksum
    /\ HitFrame = 1
    /\ emitted = <<sent[2]>>
    /\ buffer = <<>>

(***************************************************************************)
(* C5: one byte changed anywhere in a run of valid frames loses at most    *)
(* the frame holding that byte: the other frames are emitted, in order.    *)
(* Judged once the decoder has taken every byte and holds none back.       *)
(***************************************************************************)
C5_AtMostOneFrameLost ==
    (AllFed /\ hit > 0 /\ buffer = <<>>)
    => IsSubseq(Without(sent, HitFrame), emitted)

(***************************************************************************)
(* C6: junk holding no 0xC0 0x3E pair (it may hold 0xC0 bytes), then a     *)
(* valid frame, in any chunking: exactly the frame's payload is emitted.   *)
(***************************************************************************)
C6_ResyncAfterFalseStart ==
    (/\ AllFed
     /\ Len(sent) = 1
     /\ hit = 0
     /\ ~HasMagic(junk))
    => (emitted = sent /\ buffer = <<>>)

\* two false starts, then a frame whose payload is the magic itself
C6_Witness ==
    /\ AllFed
    /\ nfeeds > 1
    /\ junk = <<192, 192>>
    /\ sent = <<FRAME_MAGIC>>
    /\ emitted = sent

(***************************************************************************)
(* C7: frames concatenated in one read, fed to a decoder whose buffer is   *)
(* empty, give one payload per frame in the order of the stream, and the   *)
(* driving loop hands the payloads to publish_packet in that order: what   *)
(* has been handed over followed by what is still to be handed over is     *)
(* what the read decoded, and what was published follows that order.       *)
(***************************************************************************)
ReadSeqs == {<<p>> : p \in ReadPayloads} \cup {<<p, q>> : p, q \in ReadPayloads}

C7_FramesInOrder ==
    /\ \A ps \in ReadSeqs :
          (buf_before = <<>> /\ rx = Frames(ps)) => decoded = ps
    /\ handed \o packets = decoded
    /\ IsSubseq([i \in 1..Len(published) |-> published[i].payload],
                [i \in 1..Len(handed) |-> b64encode(handed[i])])

\* two different frames in one read, both handed over and published
C7_Witness ==
    /\ pc = "loop"
    /\ buf_before = <<>>
    /\ rx = Frames(<<<<1>>, <<2>>>>)
    /\ handed = <<<<1>>, <<2>>>>
    /\ packets = <<>>
    /\ Len(published) = 2

RECURSIVE Pow2(_)
Pow2(n) == IF n = 0 THEN 1 ELSE 2 * Pow2(n - 1)

C9_Backoff ==
    /\ reconnect_delay = Min(Pow2(fails), 60)
    /\ reconnect_delay \in 1..60
    /\ last_sleep # <<0, 0>> => last_sleep[2] = Min(Pow2(last_sleep[1]), 60)
    /\ last \in {"open_ok", "reconnect_ok"} => reconnect_delay = 1

\* the seventh try_reconnect in a row slept 60 and failed
C9_Witness ==
    /\ fails = 7
    /\ last_sleep = <<6, 60>>
    /\ reconnect_delay = 60
    /\ last = "reconnect_fail"

(***************************************************************************)
(* C10: whenever read_packets fails with SerialDisconnected and shutdown   *)
(* is not requested, the driving loop eventually calls try_reconnect,      *)
(* unless shutdown is requested or the program ends in the meantime.       *)
(***************************************************************************)
C10_LossLeadsToReconnect ==
    (last = "read_lost" /\ ~shutdown_requested)
        ~> \/ last \in {"reconnect_ok", "reconnect_fail"}
           \/ shutdown_requested
           \/ pc = "done"

(***************************************************************************)
(* C11: write_packet never lets a failure through to its caller, whatever  *)
(* the polling side does between its connectivity check and its write:     *)
(* no exception ever escapes it.                                           *)
(***************************************************************************)
C11_WriteNeverRaises == ~cb_raised

(***************************************************************************)
(* C12: at most one caller is inside port.write at any time; the lock is   *)
(* held exactly by the caller inside port.write, whether the write         *)
(* succeeds or fails; and the bytes on the wire are whole frames, followed *)
(* at most by the first part of the frame of the caller holding the lock.  *)
(***************************************************************************)
InWrite == {"writing", "failing", "raising"}

C12_WriteMutualExclusion ==
    /\ Cardinality({w \in Callers : cb_pc[w] \in InWrite}) <= 1
    /\ \A w \in Callers : cb_pc[w] \in InWrite <=> write_lock = w
    /\ IF \E w \in Callers : cb_pc[w] = "writing"
       THEN written = FirstPart(encode_frame(cb_payload[write_lock]))
       ELSE AtFrameBoundary(written)

\* a failing write holds the lock while the other caller waits for it, the
\* frame written before being whole
C12_Witness ==
    /\ write_lock = 1
    /\ cb_pc[1] = "failing"
    /\ cb_pc[2] = "write"
    /\ written = encode_frame(<<2>>)

(***************************************************************************)
(* C13: every payload a read decoded is handed to publish_packet exactly   *)
(* once, in a step that publishes it on root/identity if and only if the   *)
(* connected flag is true in that step; no other step publishes anything,  *)
(* so a payload dropped while the flag was false is never published later  *)
(* and none is published twice.                                            *)
(***************************************************************************)
C13_BestEffortPublish ==
    /\ [](handed \o packets = decoded /\ Len(published) <= Len(handed))
    /\ [][\/ /\ packets # <<>>
             /\ handed' = Append(handed, Head(packets))
             /\ packets' = Tail(packets)
             /\ published' =
                   IF mqtt_connected
                   THEN Append(published, [topic |-> RxTopic,
                                           payload |-> b64encode(Head(packets))])
                   ELSE published
          \/ /\ handed' = <<>>
             /\ published' = <<>>
             /\ packets' = decoded'
          \/ UNCHANGED <<handed, published, packets>>]_vars

\* the first payload of a read was dropped while the flag was false, the
\* second was published after the broker connected again
C13_Witness ==
    /\ mqtt_connected
    /\ handed = <<<<1>>, <<2>>>>
    /\ published = <<[topic |-> RxTopic, payload |-> b64encode(<<2>>)]>>

C15_TransientNeverFatal == exit_code = 0

(***************************************************************************)
(* C16: every successful connection to the broker, the first and any      *)
(* later one, sets the connected flag and issues the subscription to      *)
(* root/+; a refused connection and every disconnect clear the flag.  So  *)
(* while the network thread runs the flag is true exactly while the       *)
(* connection is up, and then the subscription is in place.               *)
(***************************************************************************)
C16_Resubscription ==
    /\ [](pc \notin {"close", "done"} =>
             /\ mqtt_connected <=> link = "up"
             /\ link = "up" => subscribed)
    /\ [][(link = "down" /\ link' = "up") => (mqtt_connected' /\ subscribed')]_vars
    /\ [][(link = "up" /\ link' = "down" /\ pc' # "close") => ~mqtt_connected']_vars

\* a reconnection: of the two payloads of one read the first was published,
\* the second was dropped while the connection was down, and now the
\* connection is up again with flag and subscription
C16_Witness ==
    /\ link = "up"
    /\ mqtt_connected
    /\ subscribed
    /\ handed = <<<<1>>, <<2>>>>
    /\ published = <<[topic |-> RxTopic, payload |-> b64encode(<<1>>)]>>

(***************************************************************************)
(* C17: a message whose topic has no separator, or ends in the separator  *)
(* so that its identity segment is empty, is discarded: it reaches        *)
(* neither on_packet nor write_packet.                                    *)
(***************************************************************************)
C17_MalformedIdentityDiscarded ==
    LET parts == Split(last_msg.topic) IN
    (Len(parts) < 2 \/ parts[Len(parts)] = <<>>)
        => last_msg.outcome \notin {"forwarded", "not_open"}

(***************************************************************************)
(* C18: once shutdown is requested the driving loop starts no further     *)
(* iteration (no open attempt, no read); every way out of the loops goes  *)
(* through teardown, which stops the callbacks before it closes the port, *)
(* so no write_packet call is in progress or starts once the port is      *)
(* closed; and run then ends.                                             *)
(***************************************************************************)
C18_CooperativeShutdown ==
    /\ [][(shutdown_requested /\ pc \in {"init_open", "loop"}) =>
             /\ pc' \in {pc, "init_check", "teardown"}
             /\ tick' = tick
             /\ rx' = rx
             /\ (port = "none") <=> (port' = "none")]_vars
    /\ [][(pc' = "done" /\ pc # "done") => pc = "close"]_vars
    /\ [](pc \in {"close", "done"} => ~loop_running /\ cb_pc[NetworkThread] = "idle")
    /\ [](pc = "done" => port = "none")
    /\ [](port = "none" => cb_pc[NetworkThread] = "idle")
    /\ [][pc = "done" => UNCHANGED <<written, cb_pc, port>>]_vars
    /\ (shutdown_requested \/ exit_code # 0) ~> pc = "done"

\* shut down by a signal after a frame was forwarded to the serial port
C18_Witness ==
    /\ pc = "done"
    /\ shutdown_requested
    /\ exit_code = 0
    /\ port = "none"
    /\ written = encode_frame(<<2>>)

(***************************************************************************)
(* C19: the write path (the broker callback, write_packet) never changes  *)
(* the decoder buffer, the reconnect delay or the port handle; the buffer *)
(* and the delay change, and the handle is set or cleared, only in steps  *)
(* of the driving loop.                                                   *)
(***************************************************************************)
C19_WritePathFrame ==
    /\ [][(cb_pc' # cb_pc \/ written' # written \/ write_lock' # write_lock
              \/ last_msg' # last_msg \/ cb_raised' # cb_raised)
            => UNCHANGED <<buffer, reconnect_delay, port, fails, last_sleep>>]_vars
    /\ [][(buffer' # buffer \/ reconnect_delay' # reconnect_delay
              \/ (port = "none") # (port' = "none"))
            => (pc' # pc \/ tick' # tick)]_vars

\* a write to a port whose device has gone fails while the decoder holds
\* the head of a frame
C19_Witness ==
    /\ cb_pc[NetworkThread] = "failing"
    /\ port = "lost"
    /\ buffer = FirstPart(encode_frame(<<1>>))
    /\ reconnect_delay = RECONNECT_DELAY_MIN

(***************************************************************************)
(* C20: feed terminates, every pass of its loop that does not stop       *)
(* shortening the buffer; after each feed call the buffer is empty, or   *)
(* the single byte 0xC0, or starts with the magic and is shorter than    *)
(* the header or than the frame its header announces; and no complete    *)
(* frame is left in it: feeding nothing more changes nothing and yields  *)
(* nothing.                                                              *)
(***************************************************************************)
C20_BufferInvariant ==
    /\ \/ buffer = <<>>
       \/ buffer = <<FRAME_MAGIC[1]>>
       \/ /\ Len(buffer) >= 2
          /\ SubSeq(buffer, 1, 2) = FRAME_MAGIC
          /\ \/ Len(buffer) < HEADER_SIZE
             \/ Len(buffer) < HEADER_SIZE + (buffer[3] * 256 + buffer[4]) + CHECKSUM_SIZE
    /\ feed(buffer, <<>>) = [buffer |-> buffer, frames |-> <<>>]
    /\ \A i \in 1..pos :
          LET b == SubSeq(stream, i, pos)
              r == feed_pass(b, <<>>)
          IN  r.stop \/ Len(r.buffer) < Len(b)

\* after several feed calls the buffer holds a header and part of what it
\* announces, the rest of the stream still to come
C20_Witness ==
    /\ nfeeds > 1
    /\ ~AllFed
    /\ Len(buffer) > HEADER_SIZE
    /\ emitted # <<>>

====
